---- MODULE Spec2Model ----
(***************************************************************************)
(* STICCER (sticcer.py): the realtime emission window and the regional     *)
(* forecast, as state machines.                                            *)
(*                                                                         *)
(* Each Dash callback invocation runs on a worker thread of the server;    *)
(* the network calls and the individual deque operations of one            *)
(* invocation are separate steps, so invocations may interleave exactly    *)
(* where the interpreter may switch threads.                               *)
(*                                                                         *)
(* Numbers.  Emission rates are kept in millionths of a gram per hour, so  *)
(* that convert_g_per_hour = 0.000035 is the integer 35; carbon            *)
(* intensities are even integers, so that the mean over the two            *)
(* configured locations is exact.  Floating-point rounding is not          *)
(* modelled; the range of a float is, scaled down to FloatMax.             *)
(***************************************************************************)
EXTENDS Integers, Sequences, FiniteSets, TLC

\* ------------------------------------------------------------ bounds
\* In a run: the realtime ticks that may be disturbed, how many of them may
\* start while another is still in flight, and how many backend answers may
\* deviate from the nominal one.
MaxTicks == 2
MaxOverlap == 1
MaxAnom == 1
\* changes of the container-group dropdown or of the comparison checklist
MaxEvents == 1
\* forecast requests per run
MaxForecasts == 1
\* SpecWindow: the undisturbed, serialized ticks that fill the window
\* before the MaxTicks ticks that may be disturbed.
WinQuiet == 60

\* ------------------------------------------------- program constants
\* deque(maxlen=60)
MaxLen == 60
\* convert_g_per_hour = 0.000035, in millionths
convert_g_per_hour == 35

\* timedelta(hours=0.5*n) in clock instants (seconds), and the 1800 of the
\* predict_linear horizon str(n) + '*1800'
HalfHour == 1800
HorizonStep == 1800
\* range(1, 49): the horizons; range(0, 49): the timestamps
Horizons == 48

\* json_config["location_list"], json_config["location"]
location_list == <<"A", "B">>
current_location == "A"

\* json_config["container_group_list"]; the dropdown offers "all" and these
container_groups == <<"dashgroup", "webgroup">>
Groups == {"all"} \cup {container_groups[i] : i \in DOMAIN container_groups}
\* metrics, the options of the checklist
metrics_options == {"Average location", "Optimal location"}

Threads == 1..(MaxOverlap + 1)

\* ------------------------------------------------------ Python values
\* A Python value as far as float() is concerned: an int, or a str that
\* spells the number n (num) or spells no number at all.
PyInt(k) == [ty |-> "int", num |-> TRUE, n |-> k]
PyStr(k) == [ty |-> "str", num |-> TRUE, n |-> k]
PyBad == [ty |-> "str", num |-> FALSE, n |-> 0]

\* The largest magnitude a float holds (sys.float_info.max, about 1.8e308),
\* scaled down to the model's integers; an int has no such limit, and Huge
\* is an int beyond it.
FloatMax == 1000000
Huge == FloatMax + 1
InFloatRange(k) == k <= FloatMax /\ k >= -FloatMax

\* float(v): the number an int or a numeric string denotes; ValueError on
\* a string that spells no number, OverflowError on an int too large.
Float(v) == IF ~v.num THEN [err |-> TRUE, val |-> 0]
            ELSE IF v.ty = "int" /\ ~InFloatRange(v.n) THEN [err |-> TRUE, val |-> 0]
            ELSE [err |-> FALSE, val |-> v.n]

\* a / n of two ints, n > 0: the float quotient; OverflowError when it is
\* too large for a float
TrueDiv(a, n) == IF InFloatRange(a \div n) THEN [err |-> FALSE, val |-> a \div n]
                 ELSE [err |-> TRUE, val |-> 0]

\* ------------------------------------------------- metrics backend
\* An answer of GET /api/v1/query: the transport may fail (up = FALSE);
\* otherwise a JSON body {data: {result: [{value: [ts, "number"]}]}} in
\* which any level may be missing.
PromBody(hd, hr, res) ==
    [up |-> TRUE, hasData |-> hd, hasResult |-> hr, result |-> res]
PromDown == [up |-> FALSE, hasData |-> FALSE, hasResult |-> FALSE, result |-> <<>>]
PromNoData == PromBody(FALSE, FALSE, <<>>)
PromNoResult == PromBody(TRUE, FALSE, <<>>)
PromEmpty == PromBody(TRUE, TRUE, <<>>)
PromNoValue == PromBody(TRUE, TRUE, <<[hasValue |-> FALSE, value |-> <<>>]>>)
PromShort == PromBody(TRUE, TRUE, <<[hasValue |-> TRUE, value |-> <<PyInt(0)>>]>>)
PromOk(v) == PromBody(TRUE, TRUE, <<[hasValue |-> TRUE, value |-> <<PyInt(0), v>>]>>)

\* results[0]['value'][1]: "IndexError", "KeyError" or the value found.
FirstValue(results) ==
    IF Len(results) = 0 THEN [exc |-> "IndexError", val |-> PyInt(0)]
    ELSE IF ~results[1].hasValue THEN [exc |-> "KeyError", val |-> PyInt(0)]
    ELSE IF Len(results[1].value) < 2 THEN [exc |-> "IndexError", val |-> PyInt(0)]
    ELSE [exc |-> "", val |-> results[1].value[2]]

\* (mutant of get_prom_metric: the IndexError is not caught)
get_prom_metric_uncaught(resp) ==
    IF ~resp.up \/ ~resp.hasData \/ ~resp.hasResult
    THEN [err |-> TRUE, val |-> PyInt(0)]
    ELSE LET v == FirstValue(resp.result)
         IN  [err |-> v.exc # "", val |-> v.val]

\* get_prom_metric: err when the call raises, else the metric value.
get_prom_metric(resp) ==
    IF ~resp.up \/ ~resp.hasData \/ ~resp.hasResult
    THEN [err |-> TRUE, val |-> PyInt(0)]
    ELSE LET v == FirstValue(resp.result)
         IN  IF v.exc = "IndexError" THEN [err |-> FALSE, val |-> PyInt(0)]
             ELSE IF v.exc = "KeyError" THEN [err |-> TRUE, val |-> PyInt(0)]
             ELSE [err |-> FALSE, val |-> v.val]

\* --------------------------------------------- carbon-intensity service
\* An answer of GET /emissions/bylocations: the transport may fail;
\* otherwise a JSON array of {location, rating}.
CarbBody(b) == [up |-> TRUE, body |-> b]
CarbDown == [up |-> FALSE, body |-> <<>>]
Entry(l, r) == [location |-> l, rating |-> r]

NoDict == [l \in {} |-> 0]

\* get_loc_current_carb with a str: the rating of the first entry.
get_loc_current_carb_str(resp) ==
    IF ~resp.up \/ Len(resp.body) = 0 THEN [err |-> TRUE, val |-> 0]
    ELSE [err |-> FALSE, val |-> resp.body[1].rating]

\* get_loc_current_carb with a list: the first len(location) entries as a
\* dict from their location to their rating (a later entry replaces an
\* earlier one of the same location); IndexError on a shorter array.
get_loc_current_carb_list(resp, location) ==
    IF ~resp.up \/ Len(resp.body) < Len(location)
    THEN [err |-> TRUE, val |-> NoDict]
    ELSE LET idx == 1..Len(location)
             keys == {resp.body[x].location : x \in idx}
             last(l) == CHOOSE x \in idx :
                           /\ resp.body[x].location = l
                           /\ \A y \in idx : resp.body[y].location = l => y <= x
         IN  [err |-> FALSE, val |-> [l \in keys |-> resp.body[last(l)].rating]]

\* sum(d.values()), min(d.values()) of a non-empty dict
RECURSIVE SumOver(_, _)
SumOver(d, ks) ==
    IF ks = {} THEN 0
    ELSE LET k == CHOOSE k \in ks : TRUE IN d[k] + SumOver(d, ks \ {k})
DictSum(d) == SumOver(d, DOMAIN d)
DictMin(d) == CHOOSE v \in {d[k] : k \in DOMAIN d} : \A k \in DOMAIN d : v <= d[k]

\* --------------------------------------------------- the environment
\* What the backends answer, named by kind.  The nominal answers ("ok")
\* follow a script: the CPU rate read by the tick stamped x is (x % 3) + 1,
\* the CPU seconds predicted for a horizon of h seconds are h / 1800, and
\* the grid intensities are A: 400, B: 200.  Every other kind is an
\* anomaly, and a run holds a bounded number of them.
Intensity == [l \in {"A", "B"} |-> IF l = "A" THEN 400 ELSE 200]
Other(l) == IF l = "A" THEN "B" ELSE "A"

NominalCpu(x) == (x % 3) + 1
\* the rate reported for the query of a container group: that of all
\* containers, or the share of the containers of one label group
GroupCpu(x, c_group) == IF c_group = "all" THEN NominalCpu(x) ELSE 1
NominalPredict(h) == h \div HorizonStep

\* the metrics backend's answer of a kind, v being the value it would
\* nominally report
PromAnomalies ==
    {"down", "nodata", "noresult", "empty", "novalue", "short", "nan"}
PromAnswer(kind, v) ==
    CASE kind = "ok" -> PromOk(PyStr(v))
      [] kind = "down" -> PromDown
      [] kind = "nodata" -> PromNoData
      [] kind = "noresult" -> PromNoResult
      [] kind = "empty" -> PromEmpty
      [] kind = "novalue" -> PromNoValue
      [] kind = "short" -> PromShort
      [] kind = "nan" -> PromOk(PyBad)

\* the carbon-intensity service's answer to a request for locations A and B:
\* both entries; no answer; an empty array; only B; B twice (two readings
\* of B, none of A); both entries, B first, with the readings exchanged;
\* both entries with integer readings beyond the range of a float, of
\* opposite sign
ListAnomalies == {"down", "none", "onlyB", "twiceB", "exchanged", "huge"}
ListAnswer(kind) ==
    CASE kind = "ok" -> CarbBody(<<Entry("A", 400), Entry("B", 200)>>)
      [] kind = "down" -> CarbDown
      [] kind = "none" -> CarbBody(<<>>)
      [] kind = "onlyB" -> CarbBody(<<Entry("B", 200)>>)
      [] kind = "twiceB" -> CarbBody(<<Entry("B", 200), Entry("B", 200)>>)
      [] kind = "exchanged" -> CarbBody(<<Entry("B", 400), Entry("A", 200)>>)
      [] kind = "huge" -> CarbBody(<<Entry("A", -Huge), Entry("B", Huge)>>)

\* its answer to a request for the one location l: the entry of l; no
\* answer; an empty array; the entry of the other location; the entry of l
\* with an integer reading beyond the range of a float
OneAnomalies == {"down", "none", "other", "huge"}
OneAnswer(kind, l) ==
    CASE kind = "ok" -> CarbBody(<<Entry(l, Intensity[l])>>)
      [] kind = "down" -> CarbDown
      [] kind = "none" -> CarbBody(<<>>)
      [] kind = "other" -> CarbBody(<<Entry(Other(l), Intensity[Other(l)])>>)
      [] kind = "huge" -> CarbBody(<<Entry(l, Huge)>>)

\* ------------------------------------------------------------- state
VARIABLES
    cpu_data,   \* the four deques x, current, average, optimal
    clock,      \* datetime.now(), in instants that separate two requests
    pc,         \* per worker thread: where its update_realtime stands
    loc,        \* per worker thread: the locals of its update_realtime
    nStarted,   \* ticks started so far
    nOverlap,   \* ticks started while another was in flight
    nAnom,      \* anomalous backend answers so far
    nFailed,    \* ticks that raised
    ui,         \* the values of the dropdown and of the checklist in the page
    nEvents,    \* changes of the dropdown or the checklist so far
    fig,        \* the figure update_realtime returned last
    fpc,        \* where update_forecast stands
    floc,       \* the locals of update_forecast
    fout,       \* what update_forecast returned ("none" while it runs)
    nForecasts  \* forecast requests started so far

tvars == <<cpu_data, pc, loc, nStarted, nOverlap, nFailed, ui, nEvents, fig>>
fvars == <<fpc, floc, fout, nForecasts>>
vars == <<cpu_data, clock, pc, loc, nStarted, nOverlap, nAnom, nFailed,
          ui, nEvents, fig, fpc, floc, fout, nForecasts>>

NoLocals ==
    [trigger |-> "", c_group |-> "", metrics |-> {},
     x |-> 0, prom |-> PyInt(0), carbs_dict |-> NoDict, current_carb |-> 0,
     average_carb |-> 0, optimal_carb |-> 0,
     promKind |-> "", listKind |-> "", homeKind |-> "",
     appended |-> 0]

\* region_group, x_hours, proms; asked and answers record, for each request
\* sent so far, the horizon it asked for and the kind of the backend's
\* answer; carbKind is the kind of the carbon-intensity service's answer.
NoForecast ==
    [region_group |-> "", x_hours |-> <<>>, proms |-> <<>>,
     asked |-> <<>>, answers |-> <<>>, carbKind |-> ""]

Init ==
    /\ cpu_data = [x |-> <<>>, current |-> <<>>, average |-> <<>>, optimal |-> <<>>]
    /\ clock = 0
    /\ pc = [t \in Threads |-> "idle"]
    /\ loc = [t \in Threads |-> NoLocals]
    /\ nStarted = 0
    /\ nOverlap = 0
    /\ nAnom = 0
    /\ nFailed = 0
    /\ ui = [c_group |-> "all", metrics |-> metrics_options]
    /\ nEvents = 0
    /\ fig = <<>>
    /\ fpc = "idle"
    /\ floc = NoForecast
    /\ fout = [status |-> "none", x |-> <<>>, y |-> <<>>]
    /\ nForecasts = 0

InFlight(t) == pc[t] # "idle"

\* (mutants of DequeAppend: a list that is never trimmed; a full deque that
\* drops its newest element)
AppendUnbounded(d, v) == Append(d, v)
DequeAppendDropNewest(d, v) ==
    IF Len(d) = MaxLen THEN SubSeq(d, 1, MaxLen - 1) \o <<v>> ELSE Append(d, v)

\* (mutant of DequeAppend: the deque evicts one element early)
DequeAppendEvictsEarly(d, v) ==
    IF Len(d) >= MaxLen - 1 THEN Tail(d) \o <<v>> ELSE Append(d, v)

\* deque(maxlen=60).append(v): the oldest element leaves a full deque.
DequeAppend(d, v) == IF Len(d) = MaxLen THEN Tail(d) \o <<v>> ELSE Append(d, v)

\* the kinds of answer the environment may give to a request: the nominal
\* one, or, past the first `quiet` ticks of the run, an anomalous one while
\* fewer than maxAnom of the run's answers were anomalous (n counts them)
Answers(anomalies, quiet, maxAnom, n) ==
    {"ok"} \cup (IF nStarted >= quiet /\ n < maxAnom THEN anomalies ELSE {})
Count(kind, n) == IF kind = "ok" THEN n ELSE n + 1

\* (mutant of Raise: the handler does not return after a failure, it
\* holds its worker for good)
RaiseAndHang(t) ==
    /\ pc' = [pc EXCEPT ![t] = "failed"]
    /\ loc' = [loc EXCEPT ![t] = NoLocals]
    /\ nFailed' = nFailed + 1

\* an exception leaves update_realtime: the request ends with an error and
\* its locals are gone
Raise(t) ==
    /\ pc' = [pc EXCEPT ![t] = "idle"]
    /\ loc' = [loc EXCEPT ![t] = NoLocals]
    /\ nFailed' = nFailed + 1

\* --------------------------------------------------- update_realtime
\* The three Inputs of the callback (lines 269-271): the timer, or, past
\* the first `quiet` ticks and while fewer than maxEvents changes were
\* made, a change of the dropdown or of the checklist.
Triggers(quiet, maxEvents) ==
    {"refresh_interval"} \cup
    (IF nStarted >= quiet /\ nEvents < maxEvents
     THEN {"container_group", "metrics_checklist"} ELSE {})

\* the values the page holds after the trigger: the timer changes none, a
\* change of the dropdown selects another group, a click on the checklist
\* checks or unchecks one option
PageAfter(trigger) ==
    CASE trigger = "refresh_interval" -> {ui}
      [] trigger = "container_group" ->
            {[ui EXCEPT !.c_group = g] : g \in Groups \ {ui.c_group}}
      [] trigger = "metrics_checklist" ->
            {[ui EXCEPT !.metrics = (@ \ {m}) \cup ({m} \ @)] : m \in metrics_options}

\* lines 268-274: one of the Inputs fires, the callback starts on a free
\* worker with the values of the page and stamps the tick.  What the
\* backends will answer to this tick's three requests is drawn here
\* (promKind, listKind, homeKind).
Start(t, maxTicks, quiet, maxOverlap, maxAnom, maxEvents) ==
    /\ pc[t] = "idle"
    /\ \A u \in Threads : u < t => InFlight(u)
    /\ nStarted < maxTicks
    /\ LET overlaps == \E u \in Threads : InFlight(u)
       IN  /\ overlaps => nStarted > quiet /\ nOverlap < maxOverlap
           /\ nOverlap' = IF overlaps THEN nOverlap + 1 ELSE nOverlap
    /\ clock' = clock + 1
    /\ nStarted' = nStarted + 1
    /\ \E trigger \in Triggers(quiet, maxEvents) :
       \E page \in PageAfter(trigger) :
       \E k1 \in Answers(PromAnomalies, quiet, maxAnom, nAnom) :
       \E k2 \in Answers(ListAnomalies, quiet, maxAnom, Count(k1, nAnom)) :
       \E k3 \in Answers(OneAnomalies, quiet, maxAnom, Count(k2, Count(k1, nAnom))) :
          /\ ui' = page
          /\ nEvents' = IF trigger = "refresh_interval" THEN nEvents ELSE nEvents + 1
          /\ nAnom' = Count(k3, Count(k2, Count(k1, nAnom)))
          /\ loc' = [loc EXCEPT ![t] =
                [NoLocals EXCEPT !.trigger = trigger, !.c_group = page.c_group,
                                 !.metrics = page.metrics, !.x = clock + 1,
                                 !.promKind = k1, !.listKind = k2, !.homeKind = k3]]
    /\ pc' = [pc EXCEPT ![t] = "fetch"]
    /\ UNCHANGED <<cpu_data, nFailed, fig>>

\* lines 276-286: the three requests, one after the other, and the mean
\* and minimum intensity.  The requests read and write nothing another
\* thread sees, so they are one step; a request that raises ends the tick
\* before the later ones are sent.
Fetch(t) ==
    /\ pc[t] = "fetch"
    /\ LET prom == get_prom_metric(PromAnswer(loc[t].promKind, GroupCpu(loc[t].x, loc[t].c_group)))
           carbs_dict == get_loc_current_carb_list(ListAnswer(loc[t].listKind), location_list)
           current_carb == get_loc_current_carb_str(OneAnswer(loc[t].homeKind, current_location))
           d == carbs_dict.val
           average_carb == IF carbs_dict.err THEN [err |-> TRUE, val |-> 0]
                           ELSE TrueDiv(DictSum(d), Cardinality(DOMAIN d))
       IN  IF prom.err \/ carbs_dict.err \/ current_carb.err \/ average_carb.err
           THEN Raise(t)
           ELSE /\ pc' = [pc EXCEPT ![t] = "current"]
                /\ loc' = [loc EXCEPT ![t] =
                      [@ EXCEPT !.prom = prom.val,
                                !.carbs_dict = d,
                                !.current_carb = current_carb.val,
                                !.average_carb = average_carb.val,
                                !.optimal_carb = DictMin(d)]]
                /\ UNCHANGED nFailed
    /\ UNCHANGED <<cpu_data, clock, nStarted, nOverlap, nAnom, ui, nEvents, fig>>

\* float(carb)*float(prom)*convert_g_per_hour; err when a float() raises
Rate(carb, prom) ==
    LET c == Float(PyInt(carb))
        p == Float(prom)
    IN  [err |-> c.err \/ p.err, val |-> c.val * p.val * convert_g_per_hour]

\* lines 289-291: one append to the deque `key`, then on to `next`
AppendRate(t, key, carb, next) ==
    LET r == Rate(carb, loc[t].prom)
    IN  IF r.err
        THEN /\ Raise(t)
             /\ UNCHANGED cpu_data
        ELSE /\ cpu_data' = [cpu_data EXCEPT ![key] = DequeAppend(@, r.val)]
             /\ loc' = [loc EXCEPT ![t].appended = @ + 1]
             /\ pc' = [pc EXCEPT ![t] = next]
             /\ UNCHANGED nFailed

\* line 289
AppendCurrent(t) ==
    /\ pc[t] = "current"
    /\ AppendRate(t, "current", loc[t].current_carb, "average")
    /\ UNCHANGED <<clock, nStarted, nOverlap, nAnom, ui, nEvents, fig>>

\* line 290
AppendAverage(t) ==
    /\ pc[t] = "average"
    /\ AppendRate(t, "average", loc[t].average_carb, "optimal")
    /\ UNCHANGED <<clock, nStarted, nOverlap, nAnom, ui, nEvents, fig>>

\* line 291
AppendOptimal(t) ==
    /\ pc[t] = "optimal"
    /\ AppendRate(t, "optimal", loc[t].optimal_carb, "x")
    /\ UNCHANGED <<clock, nStarted, nOverlap, nAnom, ui, nEvents, fig>>

\* line 292
AppendX(t) ==
    /\ pc[t] = "x"
    /\ cpu_data' = [cpu_data EXCEPT !.x = DequeAppend(@, loc[t].x)]
    /\ loc' = [loc EXCEPT ![t].appended = @ + 1]
    /\ pc' = [pc EXCEPT ![t] = "render"]
    /\ UNCHANGED <<clock, nStarted, nOverlap, nAnom, nFailed, ui, nEvents, fig>>

\* (mutant of PyList: the deque itself is handed out, not a copy)
SameObject(key) == [ref |-> key, val |-> <<>>]

\* list(call_data[key]): a new list holding the elements the deque holds
\* now.  A Python object in the figure is either such a list (val) or the
\* deque `ref` of cpu_data itself.
PyList(key) == [ref |-> "", val |-> cpu_data[key]]

\* lines 293-315: the traces of the figure, current always, optimal and
\* average when checked
Traces(t) ==
    <<[name |-> <<loc[t].c_group, current_location>>,
       x |-> PyList("x"), y |-> PyList("current")]>>
    \o (IF "Optimal location" \in loc[t].metrics
        THEN <<[name |-> <<"Optimal location">>,
                x |-> PyList("x"), y |-> PyList("optimal")]>>
        ELSE <<>>)
    \o (IF "Average location" \in loc[t].metrics
        THEN <<[name |-> <<"Average location">>,
                x |-> PyList("x"), y |-> PyList("average")]>>
        ELSE <<>>)

\* lines 293-323: the figure is built from copies of the deques and
\* returned (the copies are taken in one step).  The figure goes to the
\* browser; the model keeps the last one where the page is observed
\* (kept) and forgets it elsewhere.
Return(t, kept) ==
    /\ pc[t] = "render"
    /\ fig' = IF kept THEN Traces(t) ELSE fig
    /\ pc' = [pc EXCEPT ![t] = "idle"]
    /\ loc' = [loc EXCEPT ![t] = NoLocals]
    /\ UNCHANGED <<cpu_data, clock, nStarted, nOverlap, nAnom, nFailed, ui, nEvents>>

Tick(t, maxTicks, quiet, maxOverlap, maxAnom, maxEvents, kept) ==
    /\ UNCHANGED fvars
    /\ \/ Start(t, maxTicks, quiet, maxOverlap, maxAnom, maxEvents)
       \/ Fetch(t)
       \/ AppendCurrent(t)
       \/ AppendAverage(t)
       \/ AppendOptimal(t)
       \/ AppendX(t)
       \/ Return(t, kept)

\* --------------------------------------------------- update_forecast
\* (mutant of FRaise: the points computed so far are returned)
FRaisePartial ==
    /\ fpc' = "idle"
    /\ fout' = [status |-> "ok", x |-> floc.x_hours,
                y |-> [i \in 1..Len(floc.proms) |-> floc.proms[i] * convert_g_per_hour]]

\* an exception leaves update_forecast: the request ends with an error
FRaise ==
    /\ fpc' = "idle"
    /\ fout' = [status |-> "error", x |-> <<>>, y |-> <<>>]

\* line 329: x_hours, the 49 timestamps now + 0.5*n hours, n = 0..48 (the
\* 49 readings of the clock are taken as one instant)
ForecastStart(region) ==
    /\ fpc = "idle"
    /\ nForecasts < MaxForecasts
    /\ nForecasts' = nForecasts + 1
    /\ clock' = clock + 1
    /\ floc' = [NoForecast EXCEPT
                  !.region_group = region,
                  !.x_hours = [i \in 1..(Horizons + 1) |-> (clock + 1) + HalfHour * (i - 1)]]
    /\ fpc' = "proms"
    /\ fout' = [status |-> "none", x |-> <<>>, y |-> <<>>]
    /\ UNCHANGED nAnom

\* lines 331-334: the next element of proms, float(get_prom_metric(q)) for
\* the query of horizon n*1800, n = len(proms) + 1
ForecastQuery(maxAnom) ==
    /\ fpc = "proms"
    /\ Len(floc.proms) < Horizons
    /\ LET n == Len(floc.proms) + 1
           h == n * HorizonStep
       IN  \E k \in Answers(PromAnomalies, 0, maxAnom, nAnom) :
             LET m == get_prom_metric(PromAnswer(k, NominalPredict(h)))
                 f == Float(m.val)
             IN  /\ nAnom' = Count(k, nAnom)
                 /\ IF m.err \/ f.err
                    THEN /\ FRaise
                         /\ floc' = [floc EXCEPT !.asked = Append(@, h), !.answers = Append(@, k)]
                    ELSE /\ floc' = [floc EXCEPT !.asked = Append(@, h), !.answers = Append(@, k),
                                                 !.proms = Append(@, f.val)]
                         /\ UNCHANGED <<fpc, fout>>
    /\ UNCHANGED <<clock, nForecasts>>

\* lines 337-349: the one intensity of the region, the 48 projections and
\* the figure
ForecastFinish(maxAnom) ==
    /\ fpc = "proms"
    /\ Len(floc.proms) = Horizons
    /\ \E k \in Answers(OneAnomalies, 0, maxAnom, nAnom) :
          LET carb == get_loc_current_carb_str(OneAnswer(k, floc.region_group))
              c == Float(PyInt(carb.val))
          IN  /\ nAnom' = Count(k, nAnom)
              /\ floc' = [floc EXCEPT !.carbKind = k]
              /\ IF carb.err \/ c.err THEN FRaise
                 ELSE /\ fpc' = "idle"
                      /\ fout' = [status |-> "ok",
                                  x |-> floc.x_hours,
                                  y |-> [i \in 1..Len(floc.proms) |->
                                           floc.proms[i] * c.val * convert_g_per_hour]]
    /\ UNCHANGED <<clock, nForecasts>>

\* (mutant of Forecast: the forecast keeps its timestamps in cpu_data)
ForecastIntoWindow(maxAnom) ==
    /\ UNCHANGED <<pc, loc, nStarted, nOverlap, nFailed, ui, nEvents, fig>>
    /\ \/ /\ \E region \in {location_list[i] : i \in DOMAIN location_list} :
                ForecastStart(region)
          /\ cpu_data' = [cpu_data EXCEPT !.x = <<>>]
       \/ ForecastQuery(maxAnom) /\ UNCHANGED cpu_data
       \/ /\ ForecastFinish(maxAnom)
          /\ cpu_data' = [cpu_data EXCEPT !.x = DequeAppend(@, floc.x_hours[1])]

Forecast(maxAnom) ==
    /\ UNCHANGED tvars
    /\ \/ \E region \in {location_list[i] : i \in DOMAIN location_list} : ForecastStart(region)
       \/ ForecastQuery(maxAnom)
       \/ ForecastFinish(maxAnom)

Next == \E t \in Threads : Tick(t, MaxTicks, 0, MaxOverlap, MaxAnom, 0, FALSE)

Spec == Init /\ [][Next]_vars

NextWindow == \E t \in Threads : Tick(t, WinQuiet + MaxTicks, WinQuiet, MaxOverlap, MaxAnom, 0, FALSE)

SpecWindow == Init /\ [][NextWindow]_vars

\* the page observed: after WinQuiet undisturbed ticks, MaxTicks ticks that
\* the timer or a change of the dropdown or the checklist starts and that
\* may overlap, the backends answering nominally; the figures are kept
NextPage ==
    \E t \in Threads : Tick(t, WinQuiet + MaxTicks, WinQuiet, MaxOverlap, 0, MaxEvents, TRUE)

SpecPage == Init /\ [][NextPage]_vars

\* the timer alone: serialized ticks, fired as long as the run lasts.  The
\* interval component fires every 10 s and a worker that has a step to
\* take takes it: weak fairness of the ticks' steps.
NextTimer == \E t \in Threads : Tick(t, MaxTicks, 0, 0, MaxAnom, 0, FALSE)

SpecTimer == Init /\ [][NextTimer]_vars /\ WF_vars(NextTimer)

\* the selections: after WinQuiet undisturbed ticks, MaxTicks serialized
\* ticks that the timer or a change of the dropdown or the checklist
\* starts and that anomalous answers may fail
NextSelect ==
    \E t \in Threads :
       Tick(t, WinQuiet + MaxTicks, WinQuiet, 0, MaxAnom, MaxEvents, FALSE)

SpecSelect == Init /\ [][NextSelect]_vars

NextForecast == Forecast(MaxAnom)

SpecForecast == Init /\ [][NextForecast]_vars

\* the two callbacks side by side: MaxTicks - 1 serialized ticks the timer
\* starts and MaxForecasts forecast requests, in any interleaving of their
\* steps; one answer to a forecast may be anomalous
NextBoth ==
    \/ \E t \in Threads : Tick(t, MaxTicks - 1, 0, 0, 0, 0, FALSE)
    \/ Forecast(1)

SpecBoth == Init /\ [][NextBoth]_vars

\* ================================================================ claims
Series == {"x", "current", "average", "optimal"}

\* no tick is in flight, none has failed and none has overlapped another
Serial ==
    /\ \A t \in Threads : pc[t] = "idle"
    /\ nFailed = 0
    /\ nOverlap = 0

\* the emission rate the undisturbed tick stamped x appends for intensity i
NominalRate(i, x) == i * ((x % 3) + 1) * convert_g_per_hour

\* C1: after any sequence of ticks, successful or failed and in any
\* interleaving, each of the four series x, current, average and optimal
\* holds at most 60 elements.
C1_WindowBounded == \A k \in Series : Len(cpu_data[k]) <= MaxLen

\* C1 witness: the window is full, its oldest sample has been evicted, and
\* ticks have both failed and overlapped.
C1_Witness ==
    /\ \A k \in Series : Len(cpu_data[k]) = MaxLen
    /\ cpu_data.x[1] > 1
    /\ nFailed > 0
    /\ nOverlap > 0

\* C2: after n > 60 successful serialized ticks the window holds exactly
\* the samples of ticks n-59..n in tick order (after 61 ticks the oldest
\* sample is that of tick 2): the timestamps are those of these ticks and,
\* when every backend answer was the nominal one, the three rates at each
\* position are the rates of the tick stamped there.
C2_FifoEviction ==
    (Serial /\ nStarted > MaxLen) =>
        /\ cpu_data.x = [i \in 1..MaxLen |-> nStarted - MaxLen + i]
        /\ \A k \in Series : Len(cpu_data[k]) = MaxLen
        /\ nAnom = 0 =>
              \A i \in 1..MaxLen :
                 LET x == nStarted - MaxLen + i
                 IN  /\ cpu_data.current[i] = NominalRate(400, x)
                     /\ cpu_data.average[i] = NominalRate(300, x)
                     /\ cpu_data.optimal[i] = NominalRate(200, x)

\* C2 witness: 61 serialized successful ticks have run and tick 2 is the
\* oldest sample.
C2_Witness ==
    /\ Serial
    /\ nStarted = MaxLen + 1
    /\ cpu_data.x[1] = 2
    /\ nAnom = 0

\* ---------------------------------------------------------------- C3
\* the step in which the tick of thread t raises
Fails(t) == pc[t] \notin {"idle", "render"} /\ pc'[t] = "idle"

\* C3: a realtime tick that fails (a query raises, or a value cannot be
\* converted) leaves the window unchanged: it has appended to none of the
\* four series before it fails and appends to none while failing.
C3_FailedTickAppendsNothing ==
    [][\A t \in Threads :
          Fails(t) => loc[t].appended = 0 /\ cpu_data' = cpu_data]_vars

\* ---------------------------------------------------------------- C4
\* what the carbon-intensity service answers to the tick of thread t
ListOf(t) == ListAnswer(loc[t].listKind)
HomeOf(t) == OneAnswer(loc[t].homeKind, current_location)

\* both intensity lookups of the tick of thread t succeed, and the
\* intensities they return are numbers a float holds
IntensitiesRead(t) ==
    LET d == get_loc_current_carb_list(ListOf(t), location_list)
        h == get_loc_current_carb_str(HomeOf(t))
    IN  /\ ~d.err /\ ~h.err
        /\ InFloatRange(h.val)
        /\ \A l \in DOMAIN d.val : InFloatRange(d.val[l])

\* C4: when the metrics backend answers the realtime query with an empty
\* result list (and the intensities are read), the tick does not fail: the
\* metric value is 0, the tick appends 0 to current, to average and to
\* optimal and its stamp to x, one element each, and returns.
C4_EmptyResultIsZeroSample ==
    [][\A t \in Threads :
          (loc[t].promKind = "empty" /\ IntensitiesRead(t) /\ pc'[t] # pc[t]) =>
             /\ ~Fails(t)
             /\ pc[t] = "fetch" => loc'[t].prom = PyInt(0)
             /\ pc[t] \in {"current", "average", "optimal"} =>
                    /\ cpu_data'[pc[t]] = DequeAppend(cpu_data[pc[t]], 0)
                    /\ \A k \in Series \ {pc[t]} : cpu_data'[k] = cpu_data[k]
             /\ pc[t] = "x" =>
                    /\ cpu_data' = [cpu_data EXCEPT !.x = DequeAppend(@, loc[t].x)]
                    /\ loc'[t].appended = 4]_vars

\* C4 witness: a tick whose metrics query met an empty result list has
\* appended its sample, three rates of 0 and its stamp.
C4_Witness ==
    \E t \in Threads :
       /\ pc[t] = "render"
       /\ loc[t].promKind = "empty"
       /\ loc[t].appended = 4
       /\ cpu_data.x[Len(cpu_data.x)] = loc[t].x
       /\ cpu_data.current[Len(cpu_data.current)] = 0
       /\ cpu_data.average[Len(cpu_data.average)] = 0
       /\ cpu_data.optimal[Len(cpu_data.optimal)] = 0

\* ---------------------------------------------------------------- C5
\* the metrics query of the tick of thread t has returned
PastFetch(t) == pc[t] \in {"current", "average", "optimal", "x", "render"}

\* what the metrics backend answers to the tick of thread t
PromOf(t) == PromAnswer(loc[t].promKind, GroupCpu(loc[t].x, loc[t].c_group))

\* the payload has data.result, and its first result, if any, has a value
\* array of at least two elements
WellFormed(resp) ==
    /\ resp.up /\ resp.hasData /\ resp.hasResult
    /\ Len(resp.result) > 0 =>
          resp.result[1].hasValue /\ Len(resp.result[1].value) >= 2

\* C5: the metrics query returns without error only on a well-formed
\* payload (a transport failure, missing data or result, a first result
\* without value, a value array shorter than two are errors), and it
\* returns the fallback 0 only when the result list is empty.
C5_ZeroOnlyForEmptyResult ==
    \A t \in Threads :
       PastFetch(t) =>
          /\ WellFormed(PromOf(t))
          /\ loc[t].prom = PyInt(0) => Len(PromOf(t).result) = 0

\* ---------------------------------------------------------------- C6
\* the answer resp holds an entry of location l; the rating of that entry
Present(resp, l) == \E i \in DOMAIN resp.body : resp.body[i].location = l
RatingOf(resp, l) ==
    resp.body[CHOOSE i \in DOMAIN resp.body : resp.body[i].location = l].rating
Locations == {location_list[i] : i \in DOMAIN location_list}

\* C6: a carbon-intensity lookup that returns has found every requested
\* location in the answer (it fails when one is absent), in the single
\* and in the list form, and what it returns for a location is the
\* reading of that location: never that of another location, never a
\* mapping without a requested location.
C6_LookupFailsOnAbsentLocation ==
    \A t \in Threads :
       PastFetch(t) =>
          /\ Present(HomeOf(t), current_location)
          /\ loc[t].current_carb = RatingOf(HomeOf(t), current_location)
          /\ \A l \in Locations : Present(ListOf(t), l)
          /\ DOMAIN loc[t].carbs_dict = Locations
          /\ \A l \in Locations : loc[t].carbs_dict[l] = RatingOf(ListOf(t), l)

\* ---------------------------------------------------------------- C7
\* the mean and the minimum of the readings of the configured locations
\* in the answer resp
MeanRating(resp) ==
    SumOver([l \in Locations |-> RatingOf(resp, l)], Locations) \div Cardinality(Locations)
MinRating(resp) ==
    CHOOSE v \in {RatingOf(resp, l) : l \in Locations} :
       \A l \in Locations : v <= RatingOf(resp, l)

\* C7: every rate a tick appends is intensity * cpuRate * constant with
\* the tick's one CPU-rate reading and the one constant; the intensity is
\* the home location's reading for current, the mean of the readings of
\* all configured locations for average, their minimum for optimal.
C7_RatesDifferOnlyInIntensity ==
    [][\A t \in Threads :
          (pc[t] \in {"current", "average", "optimal"} /\ pc'[t] # pc[t] /\ ~Fails(t)) =>
             LET cpuRate == Float(get_prom_metric(PromOf(t)).val).val
                 new == cpu_data'[pc[t]][Len(cpu_data'[pc[t]])]
             IN  /\ Present(HomeOf(t), current_location)
                 /\ \A l \in Locations : Present(ListOf(t), l)
                 /\ pc[t] = "current" =>
                       new = RatingOf(HomeOf(t), current_location) * cpuRate * convert_g_per_hour
                 /\ pc[t] = "average" =>
                       new = MeanRating(ListOf(t)) * cpuRate * convert_g_per_hour
                 /\ pc[t] = "optimal" =>
                       new = MinRating(ListOf(t)) * cpuRate * convert_g_per_hour]_vars

\* --------------------------------------------------------------- C10
\* the position of a series in the order in which a tick appends to them
SeriesIndex(k) ==
    CASE k = "current" -> 1 [] k = "average" -> 2 [] k = "optimal" -> 3 [] k = "x" -> 4

\* C10: samples enter the window in tick order, also when ticks overlap:
\* when a tick appends to a series, no tick that started after it has
\* already appended to that series, and no stamp of a tick that started
\* after it is in the x series.
C10_SamplesInTickOrder ==
    [][\A t \in Threads :
          (pc[t] \in Series /\ pc'[t] # pc[t] /\ ~Fails(t)) =>
             /\ \A u \in Threads \ {t} :
                   (InFlight(u) /\ loc[u].x > loc[t].x) =>
                       loc[u].appended < SeriesIndex(pc[t])
             /\ \A i \in DOMAIN cpu_data.x : cpu_data.x[i] < loc[t].x]_vars

\* ---------------------------------------------------------------- C8
\* what the carbon-intensity service answered to the forecast's lookup
RegionAnswer == OneAnswer(floc.carbKind, floc.region_group)

\* the n-th request of the forecast: what the metrics backend answered,
\* and the predictive metric p_n read from it
HorizonAnswer(n) == PromAnswer(floc.answers[n], NominalPredict(floc.asked[n]))
HorizonMetric(n) == Float(get_prom_metric(HorizonAnswer(n)).val)

Returned == fpc = "idle" /\ fout.status = "ok"

\* C8: a forecast for region R that returns holds exactly 48 projected
\* emissions in horizon order, the n-th being p_n * I * constant with p_n
\* the predictive metric for the horizon of 1800*n seconds and I the one
\* reading of R's intensity; its timestamps increase in steps of 30
\* minutes.
C8_ForecastSeries ==
    Returned =>
       /\ Len(fout.y) = Horizons
       /\ floc.asked = [n \in 1..Horizons |-> HorizonStep * n]
       /\ Present(RegionAnswer, floc.region_group)
       /\ \A n \in 1..Horizons :
             fout.y[n] = HorizonMetric(n).val
                           * RatingOf(RegionAnswer, floc.region_group)
                           * convert_g_per_hour
       /\ \A i \in 1..(Len(fout.x) - 1) : fout.x[i + 1] = fout.x[i] + HalfHour

\* ---------------------------------------------------------------- C9
\* a request of the forecast failed: one of the horizon queries sent so
\* far, or the lookup of the region's intensity
QueryFailed(n) == get_prom_metric(HorizonAnswer(n)).err \/ HorizonMetric(n).err
LookupFailed ==
    LET carb == get_loc_current_carb_str(RegionAnswer)
    IN  floc.carbKind # "" /\ (carb.err \/ Float(PyInt(carb.val)).err)
SomeRequestFailed ==
    LookupFailed \/ \E n \in DOMAIN floc.answers : QueryFailed(n)

\* C9: the forecast is all or nothing: when one of the horizon queries or
\* the lookup of the region's intensity fails, the request ends with an
\* error and returns no series; a series is returned only with all 48
\* points.
C9_ForecastAllOrNothing ==
    /\ (fpc = "idle" /\ SomeRequestFailed) => fout.status = "error" /\ fout.y = <<>>
    /\ fout.status = "ok" => Len(fout.y) = Horizons /\ ~SomeRequestFailed
    /\ fout.status # "ok" => fout.y = <<>> /\ fout.x = <<>>

\* C9 witness: a forecast has ended with an error after some, not all, of
\* its horizon queries had succeeded.
C9_Witness ==
    /\ fpc = "idle"
    /\ fout.status = "error"
    /\ Len(floc.proms) > 0
    /\ Len(floc.proms) < Horizons
    /\ QueryFailed(Len(floc.answers))

\* --------------------------------------------------------------- C11
\* C11: in every reachable state, for any interleaving of ticks, the
\* stamps of the x series do not decrease from the oldest entry to the
\* newest.
C11_StampsNonDecreasing ==
    \A i \in DOMAIN cpu_data.x : \A j \in DOMAIN cpu_data.x :
       i < j => cpu_data.x[i] <= cpu_data.x[j]

\* --------------------------------------------------------------- C12
\* the elements of a Python object of the figure, as a reader finds them
View(obj) == IF obj.ref = "" THEN obj.val ELSE cpu_data[obj.ref]

\* the intensity factor of a trace, by its place among the three rates
TraceIntensity(name) ==
    CASE name = <<"Optimal location">> -> 200
      [] name = <<"Average location">> -> 300
      [] OTHER -> 400

\* C12: a reader of the window that runs while ticks run sees every sample
\* whole or not at all: in the series it reads, the x series and each rate
\* series have the same length, and the entries at one index are those of
\* one tick (the rate is the rate of the tick stamped there).
C12_ReaderSeesWholeSamples ==
    \A i \in DOMAIN fig :
       LET x == View(fig[i].x)
           y == View(fig[i].y)
       IN  /\ Len(x) = Len(y)
           /\ nEvents = 0 =>
                 \A j \in DOMAIN x :
                    j \in DOMAIN y => y[j] = NominalRate(TraceIntensity(fig[i].name), x[j])

\* --------------------------------------------------------------- C13
\* the step in which the tick of thread t appends to a series
Appends(t) == pc[t] \in Series /\ pc'[t] # pc[t] /\ ~Fails(t)

\* C13: the timer's tick is the only writer of the window: a step changes
\* the window only as an append of a tick the timer started, a tick
\* appends at most once to each series, and an invocation that a change
\* of the dropdown or of the checklist started appends nothing.
C13_OnlyTimerTicksAppend ==
    [][/\ cpu_data' # cpu_data =>
             \E t \in Threads : Appends(t) /\ loc[t].trigger = "refresh_interval"
       /\ \A t \in Threads :
             /\ Appends(t) => loc[t].appended = SeriesIndex(pc[t]) - 1
             /\ (InFlight(t) /\ loc[t].trigger # "refresh_interval") =>
                    (pc'[t] # pc[t] => cpu_data' = cpu_data)]_vars

\* --------------------------------------------------------------- C14
\* C14: the series of a figure that was returned are copies of the window
\* as it was then: while that figure is the last one returned, no step
\* (no append, no eviction of a later tick) changes the elements of any
\* of its series.
C14_ReturnedSeriesAreCopies ==
    [][(fig # <<>> /\ fig' = fig) =>
          \A i \in DOMAIN fig :
             /\ View(fig[i].x)' = View(fig[i].x)
             /\ View(fig[i].y)' = View(fig[i].y)]_vars

\* C14 witness: a figure was returned with a full window, and a later
\* tick has since appended and evicted: the window no longer holds what
\* the figure holds.
C14_Witness ==
    /\ fig # <<>>
    /\ Len(View(fig[1].x)) = MaxLen
    /\ Len(cpu_data.x) = MaxLen
    /\ cpu_data.x[1] > View(fig[1].x)[1]
    /\ cpu_data.current # View(fig[1].y)

\* --------------------------------------------------------------- C15
\* a step of update_forecast; a step of update_realtime
ForecastStep == <<fpc, floc, fout>>' # <<fpc, floc, fout>>
TickStep == pc' # pc

\* C15: the forecast and the realtime tick share no mutable state: a step
\* of a forecast request, one that succeeds or one that fails, leaves the
\* window as it is; a step of a tick leaves the forecast's locals and
\* result as they are; and the series a forecast returns is the one its
\* own answers give, whatever the ticks did meanwhile.
C15_ForecastAndTicksApart ==
    /\ [][/\ ForecastStep => cpu_data' = cpu_data
          /\ TickStep => <<fpc, floc, fout>>' = <<fpc, floc, fout>>]_vars
    /\ [](Returned =>
            /\ fout.x = floc.x_hours
            /\ fout.y = [n \in 1..Horizons |->
                           HorizonMetric(n).val
                             * get_loc_current_carb_str(RegionAnswer).val
                             * convert_g_per_hour])

\* C15 witness: a forecast request has failed after some of its queries
\* while a tick was appending its sample.
C15_Witness ==
    /\ fpc = "idle"
    /\ nForecasts > 0
    /\ Len(floc.proms) > 0
    /\ fout.status = "error"
    /\ Len(cpu_data.current) > 0
    /\ \E t \in Threads : pc[t] \in Series /\ loc[t].x < floc.x_hours[1]

\* --------------------------------------------------------------- C16
\* the points of the figure {'x': x_hours, 'y': vals}: a trace pairs its x
\* and y by index, and an x without a y is no point
Points ==
    [i \in 1..(IF Len(fout.x) < Len(fout.y) THEN Len(fout.x) ELSE Len(fout.y)) |->
        [at |-> fout.x[i], value |-> fout.y[i]]]

\* C16: in the figure a forecast returns, the value computed for the
\* horizon of 1800*n seconds, n = 1..48, is paired with the timestamp
\* now + 0.5*n hours, and the timestamp of n = 0, now, is a baseline that
\* carries no projected value.
C16_ValuePairedWithItsHorizon ==
    Returned =>
       LET now == floc.x_hours[1]
       IN  /\ \A n \in 1..Horizons :
                \E i \in DOMAIN Points :
                   /\ Points[i].at = now + HalfHour * n
                   /\ Points[i].value = fout.y[n]
                   /\ floc.asked[n] = HorizonStep * n
           /\ \A i \in DOMAIN Points : Points[i].at # now

\* --------------------------------------------------------------- C17
\* the three queries of the tick of thread t succeed and their values
\* convert
QueriesSucceed(t) ==
    /\ InFlight(t)
    /\ ~get_prom_metric(PromOf(t)).err
    /\ ~Float(get_prom_metric(PromOf(t)).val).err
    /\ IntensitiesRead(t)

Stamps == {cpu_data.x[i] : i \in DOMAIN cpu_data.x}

\* C17: a failed tick is not retried within the tick (the step that fails
\* ends it, no request is sent again), and it does not disable later
\* ticks: under fair firing the timer goes on to fire every tick of the
\* run whatever failed before, and every tick whose queries succeed has
\* its sample appended, so a sample is eventually appended once the
\* backends stay available.
C17_FailureDoesNotStopTheTimer ==
    /\ [][\A t \in Threads :
            Fails(t) => /\ nStarted' = nStarted
                        /\ clock' = clock
                        /\ loc'[t] = NoLocals]_vars
    /\ <>(nStarted = MaxTicks)
    /\ \A s \in 1..MaxTicks :
          (\E t \in Threads : loc[t].x = s /\ QueriesSucceed(t)) ~> (s \in Stamps)

\* C17 witness: a tick has failed and the last tick of the run, a later
\* one, has appended its sample.
C17_Witness ==
    /\ nFailed > 0
    /\ nStarted = MaxTicks
    /\ Len(cpu_data.x) > 0
    /\ cpu_data.x[Len(cpu_data.x)] = MaxTicks
    /\ \A t \in Threads : pc[t] = "idle"

\* --------------------------------------------------------------- C18
\* C18: whenever no tick is in progress, after any sequence of serialized
\* ticks, successful or failed, the four series x, current, average and
\* optimal have the same length.
C18_SeriesSameLengthAtRest ==
    (nOverlap = 0 /\ \A t \in Threads : ~InFlight(t)) =>
       \A k \in Series : Len(cpu_data[k]) = Len(cpu_data.x)

\* --------------------------------------------------------------- C19
\* series new holds all of series old, but for its oldest element when old
\* was at capacity and new has gained an element
OnlyEvicted(old, new) ==
    \/ new = old
    \/ /\ Len(new) > 0
       /\ SubSeq(new, 1, Len(new) - 1) = (IF Len(old) = MaxLen THEN Tail(old) ELSE old)

\* C19: a sample leaves the window only as the oldest entry, evicted when
\* a tick appends at capacity 60: no step (of a failing tick, of an
\* invocation a change of the dropdown or of the checklist starts) clears
\* a series or removes another element, and a step that is no append
\* leaves the window as it is; so the samples computed for different
\* selections of the container group stay side by side in the window.
C19_SamplesLeaveOnlyByEviction ==
    [][/\ \A k \in Series : OnlyEvicted(cpu_data[k], cpu_data'[k])
       /\ (\A t \in Threads : ~Appends(t)) => cpu_data' = cpu_data]_vars

\* C19 witness: a tick has failed, and an invocation that the selection of
\* a container group started has appended at capacity, evicting the oldest
\* sample: its sample stands in the window next to those computed for
\* "all".
C19_Witness ==
    \E t \in Threads :
       /\ pc[t] = "render"
       /\ loc[t].trigger = "container_group"
       /\ loc[t].c_group # "all"
       /\ nFailed > 0
       /\ Len(cpu_data.x) = MaxLen
       /\ cpu_data.x[1] = 2
       /\ cpu_data.x[MaxLen] = loc[t].x
       /\ cpu_data.current[MaxLen] = 400 * GroupCpu(loc[t].x, loc[t].c_group) * convert_g_per_hour
       /\ cpu_data.current[MaxLen - 1] = NominalRate(400, cpu_data.x[MaxLen - 1])

====
